---- MODULE Spec2Model ----
(***************************************************************************)
(* A model of the QLDB driver for Node.js: the session pool and outer      *)
(* retry loop of QldbDriver (src/src/QldbDriver.ts) and the paginated      *)
(* ResultStream (src/unnamed/part_000).                                    *)
(*                                                                         *)
(* JavaScript runs each synchronous segment to completion.  The variable   *)
(* running names the executeLambda call whose synchronous segment is in    *)
(* progress (NoCall when none is); while it is set no other call resumes   *)
(* and close() cannot be called.                                           *)
(***************************************************************************)
EXTENDS Integers, Sequences, FiniteSets, TLC

\* ---------------------------------------------------------------- bounds
NumCalls == 3
MaxCapacity == 2
MaxSessions == 2
MaxPages == 2
MaxPageLen == 2
MaxReport == 1
MaxReads == 4

\* ------------------------------------------------------------- constants
NoCall == 0
NoSession == 0
NoToken == 0
Null == -1
NotObtained == -2

Calls == 1..NumCalls
SessionIds == 1..MaxSessions

\* The error classes of executeLambda.
SessionValidityErrors == {"StartTransactionError", "InvalidSessionException"}
ExecuteOutcomes == {"ok", "OtherError"} \cup SessionValidityErrors

VARIABLES
    \* QldbDriver
    capacity,           \* _maxConcurrentTransactions
    isClosed,           \* _isClosed
    availablePermits,   \* _availablePermits
    semaphore,          \* the permits of _semaphore
    sessionPool,        \* _sessionPool, a sequence of session ids
    numSessions,        \* how many QldbSession objects were constructed
    sessionOpen,        \* QldbSession.isSessionOpen() of each session
    \* one executeLambda call
    pc,                 \* its position
    session,            \* its local variable session (NoSession is null)
    err,                \* the settled outcome of the awaited promise
    result,             \* what the call completed with
    running,            \* the call whose synchronous segment is executing
    \* observation only
    acquired,           \* successful getSession calls of each call
    released,           \* _returnSessionToPool calls of each call
    \* ResultStream
    spc,                    \* the position of the push cycle
    cachedPageNo,           \* which page _cachedPage is
    cachedLen,              \* _cachedPage.Values.length
    nextPageToken,          \* _cachedPage.NextPageToken (NoToken is absent)
    shouldPushCachedPage,   \* _shouldPushCachedPage
    retrieveIndex,          \* _retrieveIndex
    isPushingData,          \* _isPushingData
    ioUsage,                \* _ioUsage (Null is unset)
    timingInformation,      \* _timingInformation (Null is unset)
    destroyed,              \* Readable: destroy(e) was called
    consumerError,          \* Readable: the error given to the consumer
    emitted,                \* Readable: the values pushed, in order
    endSignals,             \* Readable: how many times push(null) was called
    \* observation only
    received,               \* the values of the pages received, in order
    fetchCalls,             \* fetchPage calls made
    ioAny,                  \* some response reported ConsumedIOs
    ioSum,                  \* the sum of the ConsumedIOs reported
    timeAny,                \* some response reported TimingInformation
    timeSum,                \* the sum of the TimingInformation reported
    reads,                  \* _read calls made from outside
    fetchToken,             \* the token of the last fetchPage call
    cycles,                 \* _pushPageValues calls that have not returned
    refused,                \* a delivery was refused and no _read came since
    valueAfterEnd,          \* a value was pushed after push(null)
    \* a caller of the statistics getters
    ioHeldAt,               \* _ioUsage when getConsumedIOs returned it
    timeHeldAt              \* _timingInformation when the getter returned it

driverVars == <<capacity, isClosed, availablePermits, semaphore, sessionPool,
                numSessions, sessionOpen, pc, session, err, result, running,
                acquired, released>>

streamVars == <<spc, cachedPageNo, cachedLen, nextPageToken,
                shouldPushCachedPage, retrieveIndex, isPushingData, ioUsage,
                timingInformation, destroyed, consumerError, emitted,
                endSignals, received, fetchCalls, ioAny, ioSum, timeAny,
                timeSum, reads, fetchToken, cycles, refused, valueAfterEnd>>

statsVars == <<ioHeldAt, timeHeldAt>>

vars == <<driverVars, streamVars, statsVars>>

\* ------------------------------------------------------- pure operations

\* _throwIfClosed: TRUE when it throws DriverClosedError.
ThrowIfClosedNever(closed) == FALSE
ThrowIfClosed(closed) == closed

\* Semaphore.tryAcquire: TRUE when a permit is taken.
TryAcquire(permits) == permits > 0

\* The catch clause of executeLambda: TRUE when the loop continues.
IsRetriableOnlyStart(e) == e = "StartTransactionError"
IsRetriableAlsoCapacity(e) ==
    e \in {"StartTransactionError", "InvalidSessionException",
           "SessionPoolEmptyError"}
IsRetriable(e) == e = "StartTransactionError" \/ e = "InvalidSessionException"

\* _returnSessionToPool: the idle pool after session s was returned.
PoolAfterReturnNoCheck(pool, s, open) == Append(pool, s)
PoolAfterReturn(pool, s, open) == IF open THEN Append(pool, s) ELSE pool

\* getSession: a permit count after the catch clause for a failed creation.
PermitsAfterCreateFailureKept(permits) == permits
PermitsAfterCreateFailure(permits) == permits + 1

\* getSession: the idle pool after _sessionPool.pop().
PoolAfterPopKept(pool) == pool
PoolAfterPop(pool) == SubSeq(pool, 1, Len(pool) - 1)

\* QldbSession.isSessionOpen
IsSessionOpen(s) == sessionOpen[s]

\* QldbSession.endSession on every session of a pool
EndSessionsAll(open, pool) == [s \in SessionIds |-> FALSE]
EndSessions(open, pool) ==
    [s \in SessionIds |->
        IF \E i \in 1..Len(pool) : pool[i] = s THEN FALSE ELSE open[s]]

\* QldbSession.executeLambda: the open flag of session s after outcome o
OpenAfterExecute(open, s, o) ==
    IF o \in SessionValidityErrors THEN [open EXCEPT ![s] = FALSE] ELSE open

\* ------------------------------------------------------------------ Init

DriverInit ==
    /\ capacity \in 1..MaxCapacity
    /\ isClosed = FALSE
    /\ availablePermits = capacity
    /\ semaphore = capacity
    /\ sessionPool = <<>>
    /\ numSessions = 0
    /\ sessionOpen = [s \in SessionIds |-> FALSE]
    /\ pc = [c \in Calls |-> "start"]
    /\ session = [c \in Calls |-> NoSession]
    /\ err = [c \in Calls |-> "none"]
    /\ result = [c \in Calls |-> "none"]
    /\ running = NoCall
    /\ acquired = [c \in Calls |-> 0]
    /\ released = [c \in Calls |-> 0]

\* --------------------------------------------------------------- actions

\* executeLambda is called: it runs synchronously up to getSession.
Call(c) ==
    /\ running = NoCall
    /\ pc[c] = "start"
    /\ pc' = [pc EXCEPT ![c] = "get"]
    /\ running' = c
    /\ UNCHANGED <<capacity, isClosed, availablePermits, semaphore, sessionPool,
                   numSessions, sessionOpen, session, err, result, acquired,
                   released>>

\* The synchronous part of getSession, up to its first suspension.
GetSession(c) ==
    /\ running = c
    /\ pc[c] = "get"
    /\ running' = NoCall
    /\ IF ThrowIfClosed(isClosed)
       THEN /\ pc' = [pc EXCEPT ![c] = "settled"]
            /\ err' = [err EXCEPT ![c] = "DriverClosedError"]
            /\ UNCHANGED <<availablePermits, semaphore, sessionPool, session,
                           acquired>>
       ELSE IF TryAcquire(semaphore)
       THEN /\ semaphore' = semaphore - 1
            /\ availablePermits' = availablePermits - 1
            /\ IF Len(sessionPool) > 0
               THEN /\ session' = [session EXCEPT ![c] = sessionPool[Len(sessionPool)]]
                    /\ sessionPool' = PoolAfterPop(sessionPool)
                    /\ pc' = [pc EXCEPT ![c] = "executing"]
                    /\ acquired' = [acquired EXCEPT ![c] = @ + 1]
                    /\ UNCHANGED err
               ELSE /\ pc' = [pc EXCEPT ![c] = "creating"]
                    /\ UNCHANGED <<sessionPool, session, err, acquired>>
       ELSE /\ pc' = [pc EXCEPT ![c] = "settled"]
            /\ err' = [err EXCEPT ![c] = "SessionPoolEmptyError"]
            /\ UNCHANGED <<availablePermits, semaphore, sessionPool, session,
                           acquired>>
    /\ UNCHANGED <<capacity, isClosed, numSessions, sessionOpen, result, released>>

\* Communicator.create resolves: getSession returns the new session.
CreateSessionOk(c) ==
    /\ running = NoCall
    /\ pc[c] = "creating"
    /\ numSessions < MaxSessions
    /\ numSessions' = numSessions + 1
    /\ sessionOpen' = [sessionOpen EXCEPT ![numSessions + 1] = TRUE]
    /\ session' = [session EXCEPT ![c] = numSessions + 1]
    /\ pc' = [pc EXCEPT ![c] = "executing"]
    /\ acquired' = [acquired EXCEPT ![c] = @ + 1]
    /\ UNCHANGED <<capacity, isClosed, availablePermits, semaphore, sessionPool,
                   err, result, running, released>>

\* Communicator.create rejects: getSession gives the permit back and throws.
CreateSessionFail(c) ==
    /\ running = NoCall
    /\ pc[c] = "creating"
    /\ semaphore' = PermitsAfterCreateFailure(semaphore)
    /\ availablePermits' = PermitsAfterCreateFailure(availablePermits)
    /\ pc' = [pc EXCEPT ![c] = "settled"]
    /\ err' = [err EXCEPT ![c] = "SessionCreateError"]
    /\ UNCHANGED <<capacity, isClosed, sessionPool, numSessions, sessionOpen,
                   session, result, running, acquired, released>>

\* session.executeLambda settles with outcome o.
SessionExecute(c, o) ==
    /\ running = NoCall
    /\ pc[c] = "executing"
    /\ sessionOpen' = OpenAfterExecute(sessionOpen, session[c], o)
    /\ pc' = [pc EXCEPT ![c] = "settled"]
    /\ err' = [err EXCEPT ![c] = o]
    /\ UNCHANGED <<capacity, isClosed, availablePermits, semaphore, sessionPool,
                   numSessions, session, result, running, acquired, released>>

\* The catch and finally clauses of one loop iteration of executeLambda, and
\* the return, the throw or the continue that follows them.
CatchFinally(c) ==
    /\ running = NoCall
    /\ pc[c] = "settled"
    /\ IF session[c] # NoSession
       THEN /\ sessionPool' = PoolAfterReturn(sessionPool, session[c],
                                              IsSessionOpen(session[c]))
            /\ semaphore' = semaphore + 1
            /\ availablePermits' = availablePermits + 1
            /\ released' = [released EXCEPT ![c] = @ + 1]
       ELSE UNCHANGED <<sessionPool, semaphore, availablePermits, released>>
    /\ IF err[c] # "ok" /\ IsRetriable(err[c])
       THEN /\ pc' = [pc EXCEPT ![c] = "get"]
            /\ running' = c
            /\ UNCHANGED result
            /\ UNCHANGED <<session, err>>
       ELSE /\ pc' = [pc EXCEPT ![c] = "done"]
            /\ result' = [result EXCEPT ![c] = err[c]]
            \* the call is over: its locals are gone
            /\ session' = [session EXCEPT ![c] = NoSession]
            /\ err' = [err EXCEPT ![c] = "none"]
            /\ UNCHANGED running
    /\ UNCHANGED <<capacity, isClosed, numSessions, sessionOpen, acquired>>

\* close()
Close ==
    /\ running = NoCall
    /\ sessionOpen' = EndSessions(sessionOpen, sessionPool)
    /\ isClosed' = TRUE
    /\ UNCHANGED <<capacity, availablePermits, semaphore, sessionPool,
                   numSessions, pc, session, err, result, running, acquired,
                   released>>

\* ------------------------------------------------------- ResultStream

\* What a response reports: nothing (Null) or a number.
Reports == {Null} \cup (0..MaxReport)

\* What a report counts for in a total: a missing report counts as zero.
ReportValue(report) == IF report = Null THEN 0 ELSE report

\* The values of page p, of n values, in order.
PageValues(p, n) == [i \in 1..n |-> <<p, i>>]

\* Result._getIOUsage and Result._getTimingInformation
GetIOUsage(report) == report
GetTimingInformation(report) == report

\* IOUsageImpl.accumulateIOUsage and TimingInformationImpl.accumulateTimingInfo
AccumulateIOUsage(cur, report) == IF report = Null THEN cur ELSE cur + report
AccumulateTimingInfo(cur, report) == IF report = Null THEN cur ELSE cur + report

\* _pushPageValues: _ioUsage after a fetched page reported `report`.
IoUsageAfterFetchReset(cur, report) == IF report # Null THEN report ELSE cur
IoUsageAfterFetch(cur, report) ==
    IF cur = Null /\ report # Null THEN report
    ELSE IF cur # Null THEN AccumulateIOUsage(cur, report)
    ELSE cur

\* _pushPageValues: _timingInformation after a fetched page reported `report`.
TimingAfterFetch(cur, report) ==
    IF cur = Null /\ report # Null THEN report
    ELSE IF cur # Null THEN AccumulateTimingInfo(cur, report)
    ELSE cur

\* _pushPageValues: canPush after push returned `accepted`.
PushResultIgnored(accepted) == TRUE
PushResult(accepted) == accepted

\* _pushPageValues: _shouldPushCachedPage after a refused push.
ShouldPushAfterRefusalNever(idx, len) == FALSE
ShouldPushAfterRefusal(idx, len) == idx < len

\* The constructor: _shouldPushCachedPage.
InitialShouldPushCachedPageFalse == FALSE
InitialShouldPushCachedPage == TRUE

\* _read: TRUE when the call returns at once.
ReadIgnoredNever(pushing) == FALSE
ReadIgnored(pushing) == pushing

\* The constructor, given the result of the statement execution.
StreamInit ==
    /\ spc = "idle"
    /\ cachedPageNo = 1
    /\ cachedLen \in 0..MaxPageLen
    /\ nextPageToken \in {NoToken, 2}
    /\ shouldPushCachedPage = InitialShouldPushCachedPage
    /\ retrieveIndex = 0
    /\ isPushingData = FALSE
    /\ \E io \in Reports :
          /\ ioUsage = GetIOUsage(io)
          /\ ioAny = (io # Null)
          /\ ioSum = ReportValue(io)
    /\ \E t \in Reports :
          /\ timingInformation = GetTimingInformation(t)
          /\ timeAny = (t # Null)
          /\ timeSum = ReportValue(t)
    /\ destroyed = FALSE
    /\ consumerError = "none"
    /\ emitted = <<>>
    /\ endSignals = 0
    /\ received = PageValues(1, cachedLen)
    /\ fetchCalls = 0
    /\ reads = 0
    /\ fetchToken = NoToken
    /\ cycles = 0
    /\ refused = FALSE
    /\ valueAfterEnd = FALSE

\* The finally clause without its call of _read.
FinallyClauseNoResume(canPush) ==
    isPushingData' = FALSE /\ spc' = "idle" /\ cycles' = cycles - 1

\* The finally clause of _pushPageValues; with canPush it calls _read, which
\* starts the next push cycle.
FinallyClause(canPush) ==
    IF canPush
    THEN isPushingData' = TRUE /\ spc' = "begin" /\ cycles' = cycles
    ELSE isPushingData' = FALSE /\ spc' = "idle" /\ cycles' = cycles - 1

\* _read.
ReadCall ==
    /\ IF ReadIgnored(isPushingData)
       THEN UNCHANGED <<isPushingData, spc, cycles>>
       ELSE isPushingData' = TRUE /\ spc' = "begin" /\ cycles' = cycles + 1
    /\ UNCHANGED <<cachedPageNo, cachedLen, nextPageToken, shouldPushCachedPage,
                   retrieveIndex, ioUsage, timingInformation, destroyed,
                   consumerError, emitted, endSignals, received, fetchCalls,
                   ioAny, ioSum, timeAny, timeSum, fetchToken, valueAfterEnd>>

\* _read, called from outside the stream.
Read ==
    /\ reads < MaxReads
    /\ reads' = reads + 1
    /\ refused' = FALSE
    /\ ReadCall

\* _read, called by a consumer that may always ask again after a refusal.
ConsumerRead ==
    /\ reads = 0 \/ refused \/ reads < MaxReads
    /\ reads' = IF reads < MaxReads THEN reads + 1 ELSE reads
    /\ refused' = FALSE
    /\ ReadCall

\* The read request a consumer owes the stream: the first one, and a new one
\* after a refused delivery.
RequestedRead ==
    /\ reads = 0 \/ refused
    /\ ConsumerRead

\* _pushPageValues from its start to the drain loop or to the fetchPage call.
PushPageBegin ==
    /\ spc = "begin"
    /\ IF shouldPushCachedPage
       THEN /\ shouldPushCachedPage' = FALSE
            /\ spc' = "drain"
            /\ UNCHANGED <<fetchCalls, fetchToken>>
       ELSE IF nextPageToken # NoToken
       THEN /\ fetchCalls' = fetchCalls + 1
            /\ fetchToken' = nextPageToken
            /\ spc' = "fetching"
            /\ UNCHANGED shouldPushCachedPage
       ELSE /\ spc' = "drain"
            /\ UNCHANGED <<shouldPushCachedPage, fetchCalls, fetchToken>>
    /\ UNCHANGED <<cachedPageNo, cachedLen, nextPageToken, retrieveIndex,
                   isPushingData, ioUsage, timingInformation, destroyed,
                   consumerError, emitted, endSignals, received, ioAny, ioSum,
                   timeAny, timeSum, reads, cycles, refused, valueAfterEnd>>

\* fetchPage resolves with a page of n values, with or without a next token,
\* and with the reports io and t.
FetchPageOk(n, hasNext, io, t) ==
    /\ spc = "fetching"
    /\ hasNext => nextPageToken < MaxPages
    /\ cachedPageNo' = nextPageToken
    /\ cachedLen' = n
    /\ nextPageToken' = IF hasNext THEN nextPageToken + 1 ELSE NoToken
    /\ ioUsage' = IoUsageAfterFetch(ioUsage, io)
    /\ timingInformation' = TimingAfterFetch(timingInformation, t)
    /\ retrieveIndex' = 0
    /\ spc' = "drain"
    /\ received' = received \o PageValues(nextPageToken, n)
    /\ ioAny' = (ioAny \/ io # Null)
    /\ ioSum' = ioSum + ReportValue(io)
    /\ timeAny' = (timeAny \/ t # Null)
    /\ timeSum' = timeSum + ReportValue(t)
    /\ UNCHANGED <<shouldPushCachedPage, isPushingData, destroyed,
                   consumerError, emitted, endSignals, fetchCalls, reads,
                   fetchToken, cycles, refused, valueAfterEnd>>

\* fetchPage rejects.
FetchPageFail ==
    /\ spc = "fetching"
    /\ destroyed' = TRUE
    /\ consumerError' = "FetchError"
    /\ FinallyClause(FALSE)
    /\ UNCHANGED <<cachedPageNo, cachedLen, nextPageToken, shouldPushCachedPage,
                   retrieveIndex, ioUsage, timingInformation, emitted,
                   endSignals, received, fetchCalls, ioAny, ioSum, timeAny, timeSum,
                   reads, fetchToken, refused, valueAfterEnd>>

\* One iteration of the drain loop: push returns `accepted`.  A destroyed
\* Readable may drop the value (delivered is FALSE) and then refuses.
PushValue(accepted, delivered) ==
    /\ spc = "drain"
    /\ retrieveIndex < cachedLen
    /\ ~destroyed => delivered
    /\ ~delivered => ~accepted
    /\ retrieveIndex' = retrieveIndex + 1
    /\ emitted' = IF delivered
                  THEN Append(emitted, <<cachedPageNo, retrieveIndex + 1>>)
                  ELSE emitted
    /\ valueAfterEnd' = (valueAfterEnd \/ (delivered /\ endSignals > 0))
    /\ refused' = (refused \/ ~accepted)
    /\ IF PushResult(accepted)
       THEN UNCHANGED <<shouldPushCachedPage, isPushingData, spc, cycles>>
       ELSE /\ shouldPushCachedPage' =
                   ShouldPushAfterRefusal(retrieveIndex + 1, cachedLen)
            /\ FinallyClause(PushResult(accepted))
    /\ UNCHANGED <<cachedPageNo, cachedLen, nextPageToken, ioUsage,
                   timingInformation, destroyed, consumerError, endSignals,
                   received, fetchCalls, ioAny, ioSum, timeAny, timeSum, reads,
                   fetchToken>>

\* The drain loop is over: push(null) when there is no next page, then the
\* finally clause.
DrainDone ==
    /\ spc = "drain"
    /\ retrieveIndex >= cachedLen
    /\ IF nextPageToken = NoToken
       THEN endSignals' = endSignals + 1 /\ FinallyClause(FALSE)
       ELSE UNCHANGED endSignals /\ FinallyClause(TRUE)
    /\ UNCHANGED <<cachedPageNo, cachedLen, nextPageToken, shouldPushCachedPage,
                   retrieveIndex, ioUsage, timingInformation, destroyed,
                   consumerError, emitted, received, fetchCalls, ioAny, ioSum,
                   timeAny, timeSum, reads, fetchToken, refused, valueAfterEnd>>

\* getConsumedIOs: the caller is handed _ioUsage itself, at any time.
getConsumedIOs ==
    /\ ioHeldAt' = ioUsage
    /\ UNCHANGED timeHeldAt

\* getTimingInformation: the caller is handed _timingInformation itself.
getTimingInformation ==
    /\ timeHeldAt' = timingInformation
    /\ UNCHANGED ioHeldAt

\* What the caller now reads in the value getConsumedIOs handed out: null
\* stays null, an IOUsage object is the one the stream accumulates into.
ConsumedIOsHeld ==
    IF ioHeldAt \in {NotObtained, Null} THEN ioHeldAt ELSE ioUsage

\* What the caller now reads in the value getTimingInformation handed out.
TimingInformationHeld ==
    IF timeHeldAt \in {NotObtained, Null} THEN timeHeldAt ELSE timingInformation

\* ------------------------------------------------------- specifications

\* The driver alone: no stream is read.
NoStream ==
    /\ StreamInit
    /\ cachedLen = 0
    /\ nextPageToken = NoToken
    /\ ioUsage = Null
    /\ timingInformation = Null

\* The stream alone: the driver is not used.
NoDriver ==
    /\ DriverInit
    /\ capacity = 1

\* No caller has asked for the statistics.
NoStats ==
    /\ ioHeldAt = NotObtained
    /\ timeHeldAt = NotObtained

Init == DriverInit /\ NoStream /\ NoStats

Next ==
    \/ \E c \in Calls : Call(c) /\ UNCHANGED <<streamVars, statsVars>>
    \/ \E c \in Calls : GetSession(c) /\ UNCHANGED <<streamVars, statsVars>>
    \/ \E c \in Calls : CreateSessionOk(c) /\ UNCHANGED <<streamVars, statsVars>>
    \/ \E c \in Calls : CreateSessionFail(c) /\ UNCHANGED <<streamVars, statsVars>>
    \/ \E c \in Calls, o \in ExecuteOutcomes :
          SessionExecute(c, o) /\ UNCHANGED <<streamVars, statsVars>>
    \/ \E c \in Calls : CatchFinally(c) /\ UNCHANGED <<streamVars, statsVars>>
    \/ Close /\ UNCHANGED <<streamVars, statsVars>>

Spec == Init /\ [][Next]_vars

StreamSpecInit == StreamInit /\ NoDriver /\ NoStats

StreamSpecNext ==
    \/ Read /\ UNCHANGED <<driverVars, statsVars>>
    \/ PushPageBegin /\ UNCHANGED <<driverVars, statsVars>>
    \/ \E n \in 0..MaxPageLen, hasNext \in BOOLEAN, io \in Reports, t \in Reports :
          FetchPageOk(n, hasNext, io, t) /\ UNCHANGED <<driverVars, statsVars>>
    \/ FetchPageFail /\ UNCHANGED <<driverVars, statsVars>>
    \/ \E accepted \in BOOLEAN, delivered \in BOOLEAN :
          PushValue(accepted, delivered) /\ UNCHANGED <<driverVars, statsVars>>
    \/ DrainDone /\ UNCHANGED <<driverVars, statsVars>>

StreamSpec == StreamSpecInit /\ [][StreamSpecNext]_vars

\* The stream and a caller that asks for its statistics at any time.
StatsSpecInit == StreamInit /\ NoDriver /\ NoStats

StatsSpecNext ==
    \/ Read /\ UNCHANGED <<driverVars, statsVars>>
    \/ PushPageBegin /\ UNCHANGED <<driverVars, statsVars>>
    \/ \E n \in 0..MaxPageLen, hasNext \in BOOLEAN, io \in Reports, t \in Reports :
          FetchPageOk(n, hasNext, io, t) /\ UNCHANGED <<driverVars, statsVars>>
    \/ FetchPageFail /\ UNCHANGED <<driverVars, statsVars>>
    \/ \E accepted \in BOOLEAN, delivered \in BOOLEAN :
          PushValue(accepted, delivered) /\ UNCHANGED <<driverVars, statsVars>>
    \/ DrainDone /\ UNCHANGED <<driverVars, statsVars>>
    \/ getConsumedIOs /\ UNCHANGED <<driverVars, streamVars>>
    \/ getTimingInformation /\ UNCHANGED <<driverVars, streamVars>>

StatsSpec == StatsSpecInit /\ [][StatsSpecNext]_vars

\* The stream when every fetchPage call succeeds, read by a consumer that
\* asks again after each refusal.  The event loop runs every continuation of
\* the push cycle, and fetchPage settles.
StreamLiveInit == StreamInit /\ NoDriver /\ NoStats

StreamLiveNext ==
    \/ ConsumerRead /\ UNCHANGED <<driverVars, statsVars>>
    \/ PushPageBegin /\ UNCHANGED <<driverVars, statsVars>>
    \/ \E n \in 0..MaxPageLen, hasNext \in BOOLEAN, io \in Reports, t \in Reports :
          FetchPageOk(n, hasNext, io, t) /\ UNCHANGED <<driverVars, statsVars>>
    \/ \E accepted \in BOOLEAN :
          PushValue(accepted, TRUE) /\ UNCHANGED <<driverVars, statsVars>>
    \/ DrainDone /\ UNCHANGED <<driverVars, statsVars>>

StreamLiveSpec ==
    /\ StreamLiveInit
    /\ [][StreamLiveNext]_vars
    /\ WF_vars(RequestedRead /\ UNCHANGED <<driverVars, statsVars>>)
    /\ WF_vars(PushPageBegin /\ UNCHANGED <<driverVars, statsVars>>)
    /\ WF_vars(\E n \in 0..MaxPageLen, hasNext \in BOOLEAN,
                  io \in Reports, t \in Reports :
                  FetchPageOk(n, hasNext, io, t)
                      /\ UNCHANGED <<driverVars, statsVars>>)
    /\ WF_vars(\E accepted \in BOOLEAN :
                  PushValue(accepted, TRUE) /\ UNCHANGED <<driverVars, statsVars>>)
    /\ WF_vars(DrainDone /\ UNCHANGED <<driverVars, statsVars>>)

\* ---------------------------------------------------- claims: QldbDriver

InSeq(q, s) == \E i \in 1..Len(q) : q[i] = s

\* Call c holds a permit: it is creating a session, or it has a borrow that
\* it has not released.
HoldsPermit(c) == pc[c] = "creating" \/ acquired[c] > released[c]
HeldCount == Cardinality({c \in Calls : HoldsPermit(c)})

\* C1: at most capacity calls hold a permit at the same time, and a call that
\* reaches getSession while capacity permits are held fails at once with
\* SessionPoolEmptyError, the permit count and the idle pool unchanged.
C1_AtMostCapacityHolders ==
    [][/\ HeldCount' <= capacity'
       /\ \A c \in Calls :
            (running = c /\ pc[c] = "get" /\ ~isClosed /\ HeldCount = capacity)
            => /\ pc'[c] = "settled"
               /\ err'[c] = "SessionPoolEmptyError"
               /\ UNCHANGED <<semaphore, availablePermits, sessionPool>>]_vars

\* C2: every borrow is released exactly once: a call never releases more often
\* than it acquired, and a finished call released as often as it acquired.
C2_ReleasedOncePerBorrow ==
    \A c \in Calls :
        /\ released[c] <= acquired[c]
        /\ pc[c] = "done" => released[c] = acquired[c]

\* C3: the permit count stays within 0..capacity and equals capacity minus the
\* borrows not yet released.
C3_PermitCount ==
    /\ availablePermits >= 0
    /\ availablePermits <= capacity
    /\ availablePermits = capacity - HeldCount

\* C4: no call completes with a StartTransactionError or an invalid-session
\* error; after such a failure of session.executeLambda the call goes on to
\* getSession again and has no result yet.
C4_ValidityErrorsAbsorbed ==
    [][\A c \in Calls :
         /\ result'[c] \notin SessionValidityErrors
         /\ (pc[c] = "settled" /\ err[c] \in SessionValidityErrors
                /\ pc'[c] # "settled")
            => (pc'[c] = "get" /\ running' = c /\ result'[c] = "none")]_vars

\* C4 witness: a call returned its result after its session was replaced.
C4_Witness ==
    \E c \in Calls : pc[c] = "done" /\ result[c] = "ok" /\ acquired[c] >= 2

\* C5: once closed the driver stays closed, and a call that reaches getSession
\* on a closed driver fails at once with DriverClosedError, taking no permit
\* and popping no idle session.
C5_ClosedDriverRefuses ==
    [][/\ isClosed => isClosed'
       /\ \A c \in Calls :
            (running = c /\ pc[c] = "get" /\ isClosed)
            => /\ pc'[c] = "settled"
               /\ err'[c] = "DriverClosedError"
               /\ session'[c] = session[c]
               /\ UNCHANGED <<semaphore, availablePermits, sessionPool,
                              acquired>>]_vars

\* C5 witness: an in-flight call was refused by the closed driver while an
\* idle session remained in the pool.
C5_Witness ==
    \E c \in Calls :
        /\ pc[c] = "settled"
        /\ err[c] = "DriverClosedError"
        /\ acquired[c] >= 1
        /\ Len(sessionPool) > 0

\* C6: getSession hands out open sessions only, a session that is not open
\* never opens again, and a session that is not open and not in the idle pool
\* never enters the pool.
C6_ClosedSessionNotHandedOut ==
    [][/\ \A c \in Calls :
            (pc[c] # "executing" /\ pc'[c] = "executing")
            => sessionOpen'[session'[c]]
       /\ \A s \in SessionIds :
            /\ (s <= numSessions /\ ~sessionOpen[s]) => ~sessionOpen'[s]
            /\ (~sessionOpen[s] /\ ~InSeq(sessionPool, s))
               => ~InSeq(sessionPool', s)]_vars

\* C6 witness: a session that was not open at its release is out of the pool
\* and a later getSession handed out another session.
C6_Witness ==
    \E c \in Calls, s \in SessionIds :
        /\ s <= numSessions
        /\ ~sessionOpen[s]
        /\ ~InSeq(sessionPool, s)
        /\ ~isClosed
        /\ released[c] >= 1
        /\ pc[c] = "executing"
        /\ session[c] # s

\* C11: a failure of any other class ends the call with that same error: the
\* loop does not iterate again, and a finished call stays finished with its
\* result.
C11_OtherErrorsPropagate ==
    [][\A c \in Calls :
         /\ (pc[c] = "settled" /\ err[c] \notin SessionValidityErrors \cup {"ok"}
                /\ pc'[c] # "settled")
            => (pc'[c] = "done" /\ result'[c] = err[c])
         /\ pc[c] = "done" => (pc'[c] = "done" /\ result'[c] = result[c])]_vars

\* C11 witness: one call ended with the capacity error while another, whose
\* replacement session could not be created, ended with the creation error.
C11_Witness ==
    \E c, d \in Calls :
        /\ pc[c] = "done" /\ result[c] = "SessionPoolEmptyError"
        /\ pc[d] = "done" /\ result[d] = "SessionCreateError"
        /\ acquired[d] >= 1

\* C13: the session on which session.executeLambda failed with a session
\* validity error is not in the idle pool once the iteration has released it,
\* and the session the next iteration receives is another one.
C13_FailedSessionDiscarded ==
    [][\A c \in Calls :
         /\ (pc[c] = "settled" /\ err[c] \in SessionValidityErrors
                /\ pc'[c] # "settled")
            => ~InSeq(sessionPool', session[c])
         /\ (pc[c] \in {"get", "creating"} /\ err[c] \in SessionValidityErrors
                /\ pc'[c] = "executing")
            => session'[c] # session[c]]_vars

\* C13 witness: after a session validity failure the call runs on a session
\* taken from the idle pool, which another call had returned.
C13_Witness ==
    \E c \in Calls :
        /\ pc[c] = "executing"
        /\ err[c] \in SessionValidityErrors
        /\ acquired[c] >= 2
        /\ numSessions = 2
        /\ session[c] = 1

\* Call c has borrowed session s and not released it.
Borrows(c, s) == session[c] = s /\ acquired[c] > released[c]

\* C14: no session is in the idle pool and borrowed at the same time, no
\* session is borrowed by two calls, and every open session is in the idle
\* pool or borrowed.
C14_IdleOrBorrowedByOne ==
    \A s \in 1..numSessions :
        /\ ~(InSeq(sessionPool, s) /\ \E c \in Calls : Borrows(c, s))
        /\ \A c, d \in Calls : (Borrows(c, s) /\ Borrows(d, s)) => c = d
        /\ sessionOpen[s] => (InSeq(sessionPool, s) \/ \E c \in Calls : Borrows(c, s))

\* C14 witness: after close() one session is idle in the pool, ended, and the
\* other is borrowed by a call in flight, still open.
C14_Witness ==
    /\ numSessions = 2
    /\ isClosed
    /\ Len(sessionPool) = 1
    /\ ~sessionOpen[sessionPool[1]]
    /\ sessionOpen[3 - sessionPool[1]]
    /\ \E c \in Calls : Borrows(c, 3 - sessionPool[1]) /\ pc[c] = "executing"

\* C15: getSession takes one permit before it creates a session and gives it
\* back when the creation fails, leaving the idle pool as it was; the call
\* then fails with the creation error.
C15_PermitRestoredOnCreateFailure ==
    [][\A c \in Calls :
         /\ (pc[c] = "get" /\ pc'[c] = "creating")
            => /\ semaphore' = semaphore - 1
               /\ availablePermits' = availablePermits - 1
               /\ sessionPool = <<>> /\ sessionPool' = <<>>
         /\ (pc[c] = "creating" /\ pc'[c] = "settled")
            => /\ semaphore' = semaphore + 1
               /\ availablePermits' = availablePermits + 1
               /\ sessionPool' = sessionPool
               /\ err'[c] = "SessionCreateError"
         /\ (pc[c] = "settled" /\ err[c] = "SessionCreateError"
                /\ pc'[c] # "settled")
            => (pc'[c] = "done" /\ result'[c] = "SessionCreateError")]_vars

\* C15 witness: a first call failed with the creation error, every permit is
\* available again and the idle pool is empty.
C15_Witness ==
    \E c \in Calls :
        /\ pc[c] = "done"
        /\ result[c] = "SessionCreateError"
        /\ acquired[c] = 0
        /\ \A d \in Calls \ {c} : pc[d] = "start"
        /\ availablePermits = capacity
        /\ semaphore = capacity
        /\ sessionPool = <<>>

C19_PoolHasNoDuplicates ==
    \A i, j \in 1..Len(sessionPool) :
        sessionPool[i] = sessionPool[j] => i = j

\* C19 witness: a call released more often than it borrowed (a failed
\* re-acquisition after a session validity failure), the driver has been
\* closed, and another session is idle in the pool.
C19_Witness ==
    /\ isClosed
    /\ Len(sessionPool) = 1
    /\ \E c \in Calls : released[c] > acquired[c]

\* -------------------------------------------------- claims: ResultStream

IsPrefix(p, q) == Len(p) <= Len(q) /\ p = SubSeq(q, 1, Len(p))

\* C7: while no fetch has failed, the values emitted are the values of the
\* pages received, each once and in order, up to some point; the end signal
\* comes only when the cached page has no NextPageToken and every value of
\* every page was emitted, and no value is emitted after it.
C7_EveryValueOnceInOrder ==
    ~destroyed =>
        /\ IsPrefix(emitted, received)
        /\ endSignals > 0 => (nextPageToken = NoToken /\ emitted = received)
        /\ ~valueAfterEnd

\* C7 witness: a result of two pages was consumed to its end signal.
C7_Witness ==
    /\ ~destroyed
    /\ endSignals = 1
    /\ cachedPageNo = 2
    /\ Len(emitted) >= 3
    /\ reads >= 2

\* C8: after a refused delivery and until the next _read the stream is idle:
\* it emits nothing, keeps its resume index and calls fetchPage no more.
C8_NoFetchWhileRefused ==
    [][/\ refused' => (spc' = "idle" /\ ~isPushingData')
       /\ refused' => (shouldPushCachedPage' <=> retrieveIndex' < cachedLen')
       /\ (refused /\ refused')
          => /\ fetchCalls' = fetchCalls
             /\ emitted' = emitted
             /\ retrieveIndex' = retrieveIndex
             /\ cachedPageNo' = cachedPageNo]_vars

\* C8 witness: the last value of a page that has a next page was refused, and
\* no page has been fetched.
C8_Witness ==
    /\ refused
    /\ cachedLen > 0
    /\ retrieveIndex = cachedLen
    /\ nextPageToken # NoToken
    /\ fetchCalls = 0

\* C9: each accumulator is unset exactly while no response has reported a
\* value, and once set it is the sum of the values reported so far, a missing
\* report counting as zero.
C9_TotalsAreSums ==
    /\ (ioUsage = Null) <=> ~ioAny
    /\ ioUsage # Null => ioUsage = ioSum
    /\ (timingInformation = Null) <=> ~timeAny
    /\ timingInformation # Null => timingInformation = timeSum

\* C9 witness: a fully consumed stream whose fetched pages added to a read IO
\* total and reported no timing at all.
C9_Witness ==
    /\ endSignals > 0
    /\ ~destroyed
    /\ fetchCalls >= 1
    /\ ioUsage = 2
    /\ timingInformation = Null

\* C10: a failed fetchPage destroys the stream with the error and retracts
\* nothing, and a destroyed stream calls fetchPage no more, emits no value and
\* no end signal.
C10_FaultedStreamStops ==
    [][/\ (spc = "fetching" /\ ~destroyed /\ destroyed')
          => (consumerError' = "FetchError" /\ emitted' = emitted)
       /\ destroyed
          => /\ destroyed'
             /\ fetchCalls' = fetchCalls
             /\ emitted' = emitted
             /\ endSignals' = endSignals]_vars

\* C12: the statistics are handed out only once the stream has completed, and
\* a value the caller holds still reads what it read when it was handed out.
C12_StatsAreFinalSnapshots ==
    /\ ioHeldAt # NotObtained => (endSignals > 0 /\ ConsumedIOsHeld = ioHeldAt)
    /\ timeHeldAt # NotObtained
          => (endSignals > 0 /\ TimingInformationHeld = timeHeldAt)

\* C17: at most one push cycle runs and at most one fetchPage call is in
\* flight, and a _read call made while a push cycle is in progress changes
\* nothing in the stream.
C17_SingleFlight ==
    /\ [](/\ cycles <= 1
          /\ isPushingData <=> cycles = 1
          /\ spc = "fetching" => cycles = 1
          /\ spc = "idle" <=> cycles = 0)
    /\ [][(reads' = reads + 1 /\ isPushingData)
            => UNCHANGED <<spc, cachedPageNo, cachedLen, nextPageToken,
                           shouldPushCachedPage, retrieveIndex, isPushingData,
                           ioUsage, timingInformation, destroyed,
                           consumerError, emitted, endSignals, fetchCalls,
                           fetchToken, cycles>>]_vars

\* C17 witness: a second _read call arrived during the push cycle that the
\* first one started, which is now suspended in its only fetchPage call.
C17_Witness ==
    /\ spc = "fetching"
    /\ reads = 2
    /\ cycles = 1
    /\ fetchCalls = 1
    /\ emitted = <<>>

\* C18: every fetchPage call is made with the buffered page drained and with
\* that page's NextPageToken; while no fetch has failed, every value received
\* so far has been emitted, the token is a new one, and the calls made are one
\* fewer than the pages received, the first page having cost none.  A stream
\* that ended without a failure made one call fewer than it had pages.
C18_FetchDiscipline ==
    /\ [][fetchCalls' # fetchCalls
            => /\ fetchCalls' = fetchCalls + 1
               /\ retrieveIndex = cachedLen
               /\ nextPageToken # NoToken
               /\ nextPageToken = cachedPageNo + 1
               /\ fetchToken' = nextPageToken
               /\ ~destroyed
                    => /\ emitted = received
                       /\ fetchToken' > fetchToken
                       /\ fetchCalls = cachedPageNo - 1]_vars
    /\ []((endSignals > 0 /\ ~destroyed)
            => (fetchCalls = cachedPageNo - 1 /\ emitted = received))

\* C18 witness: a result of two pages and three values was consumed to its
\* end with one fetchPage call, made with the first page's token.
C18_Witness ==
    /\ endSignals = 1
    /\ ~destroyed
    /\ cachedPageNo = 2
    /\ Len(emitted) = 3
    /\ fetchCalls = 1
    /\ fetchToken = 2

\* C20: with successful fetches and a consumer that reads again after each
\* refusal the end signal is eventually emitted; and the stream is never at
\* rest before its end unless no read was made yet or a refusal is
\* outstanding, whatever reads the guard ignored.
C20_EventuallyEnds ==
    /\ <>(endSignals > 0)
    /\ []((spc = "idle" /\ endSignals = 0) => (reads = 0 \/ refused))

\* C20 witness: a result of two pages with one value ended after three reads:
\* one started the stream, at most one followed a refusal, so the guard
\* ignored one.
C20_Witness ==
    /\ endSignals = 1
    /\ spc = "idle"
    /\ cachedPageNo = 2
    /\ Len(emitted) = 1
    /\ reads = 3

====
